---- MODULE Spec2Model ----
(***************************************************************************)
(* JappendWriter (src/JappendWriter.ts) appending entries to a file that   *)
(* holds one JSON array.  One writer instance, one file.  Text is a        *)
(* sequence of one-character strings; offsets are 0-based as in the source *)
(* (the character at offset i of text s is s[i + 1]).                      *)
(*                                                                         *)
(* Asynchrony: flush() and ensureAllIsFlushed() run synchronously up to    *)
(* their first await; every await of an I/O call is a suspension point at  *)
(* which append() and flush() calls of other tasks may run.  pc names the  *)
(* I/O call the ensureAllIsFlushed coroutine is suspended on; "settle" is  *)
(* the point where the coroutine's promise has settled and the then/catch  *)
(* callback attached in flush() has not run yet.                           *)
(***************************************************************************)
EXTENDS Integers, Sequences, FiniteSets, TLC

\* ------------------------------------------------------------------ bounds
MaxAppends == 2
MaxFlushCalls == 2
MaxFailures == 1

\* ------------------------------------------------------- program constants
TailWindow == 50
Infinity == 1000

\* ------------------------------------------------------------ text helpers
WS == {" ", "\n"}

DigitChars == <<"0", "1", "2", "3", "4", "5", "6", "7", "8", "9">>

Digit(n) == DigitChars[n + 1]

Spaces(n) == [i \in 1..n |-> " "]

Range(s) == {s[i] : i \in 1..Len(s)}

\* String.prototype.slice(from, to) for 0 <= from, to (clamped to the length)
Slice(s, from, to) ==
  LET t == IF to > Len(s) THEN Len(s) ELSE to
  IN  IF from >= t THEN <<>> ELSE SubSeq(s, from + 1, t)

\* String.prototype.lastIndexOf(']'): 0-based, -1 when absent
LastIndexOfBracket(s) ==
  LET hits == {i \in 1..Len(s) : s[i] = "]"}
  IN  IF hits = {} THEN -1
      ELSE (CHOOSE i \in hits : \A j \in hits : j <= i) - 1

\* String.prototype.trim()
Trim(s) ==
  LET solid == {i \in 1..Len(s) : s[i] \notin WS}
  IN  IF solid = {} THEN <<>>
      ELSE SubSeq(s, CHOOSE i \in solid : \A j \in solid : i <= j,
                     CHOOSE i \in solid : \A j \in solid : j <= i)

\* the text without its whitespace
Strip(s) == SelectSeq(s, LAMBDA c : c \notin WS)

IsPrefix(p, s) == Len(p) <= Len(s) /\ SubSeq(s, 1, Len(p)) = p

IsSuffix(p, s) == Len(p) <= Len(s) /\ SubSeq(s, Len(s) - Len(p) + 1, Len(s)) = p

\* ------------------------------------------------------------------- UTF-8
\* A text is a sequence of UTF-16 code units, a file a sequence of bytes.  An
\* ASCII character is one code unit and one byte, written as itself; the
\* character U+00E9 is one code unit and the two bytes 0xC3 0xA9.
Utf8Bytes(text) ==
  LET RECURSIVE enc(_)
      enc(t) == IF t = <<>> THEN <<>>
                ELSE (CASE Head(t) = "U+00E9" -> <<"0xC3", "0xA9">>
                        [] Head(t) = "U+FFFD" -> <<"0xEF", "0xBF", "0xBD">>
                        [] OTHER -> <<Head(t)>>) \o enc(Tail(t))
  IN  enc(text)

\* Buffer.prototype.toString(): UTF-8 decoding; a byte that is not part of a
\* complete sequence decodes to U+FFFD
BufferToString(bytes) ==
  LET RECURSIVE dec(_)
      dec(b) ==
        IF b = <<>> THEN <<>>
        ELSE IF Len(b) >= 2 /\ b[1] = "0xC3" /\ b[2] = "0xA9"
          THEN <<"U+00E9">> \o dec(SubSeq(b, 3, Len(b)))
        ELSE IF Len(b) >= 3 /\ b[1] = "0xEF" /\ b[2] = "0xBF" /\ b[3] = "0xBD"
          THEN <<"U+FFFD">> \o dec(SubSeq(b, 4, Len(b)))
        ELSE IF b[1] \in {"0xC3", "0xA9", "0xEF", "0xBF", "0xBD"}
          THEN <<"U+FFFD">> \o dec(Tail(b))
        ELSE <<b[1]>> \o dec(Tail(b))
  IN  dec(bytes)

\* ------------------------------------------------------------ JSON.stringify
\* An entry is [id, shape]: shape "num" is the number id, shape "arr" is the
\* one-element array [id], shape "str" is a string of U+00E9 and the digit.  Shapes are the shapes handed to append().
Shapes == {"num"}

\* text of one element at nesting level `level` with gap `indent`
EntryText(e, indent, level) ==
  IF e.shape = "num" THEN <<Digit(e.id)>>
  ELSE IF e.shape = "str" THEN <<"\"", "U+00E9", Digit(e.id), "\"">>
  ELSE IF indent = 0 THEN <<"[", Digit(e.id), "]">>
  ELSE <<"[", "\n">> \o Spaces(indent * (level + 1)) \o <<Digit(e.id)>>
       \o <<"\n">> \o Spaces(indent * level) \o <<"]">>

RECURSIVE JoinEntries(_, _)
JoinEntries(entries, indent) ==
  IF entries = <<>> THEN <<>>
  ELSE LET sep == IF indent = 0 THEN <<",">> ELSE <<",", "\n">>
           one == Spaces(indent) \o EntryText(Head(entries), indent, 1)
       IN  IF Len(entries) = 1 THEN one
           ELSE one \o sep \o JoinEntries(Tail(entries), indent)

\* JSON.stringify(entries, null, indent) for an array of entries; the gap is
\* at most ten spaces
Stringify(entries, indent) ==
  LET gap == IF indent > 10 THEN 10 ELSE indent
  IN  IF entries = <<>> THEN <<"[", "]">>
      ELSE IF gap = 0 THEN <<"[">> \o JoinEntries(entries, 0) \o <<"]">>
      ELSE <<"[", "\n">> \o JoinEntries(entries, gap) \o <<"\n", "]">>

\* ------------------------------------------------------------- src/utils.ts
removeFirstAndLastBrackets(text) == Trim(Slice(text, 1, Len(text) - 1))

countNewLinesAndSpacesBeforeLastBracket(fileTail, lastBracketIndex, isPretty) ==
  IF ~isPretty THEN 0
  ELSE LET solid == {i \in 0..(lastBracketIndex - 1) : fileTail[i + 1] \notin WS}
           stop == IF solid = {} THEN -1
                   ELSE CHOOSE i \in solid : \A j \in solid : j <= i
       IN  lastBracketIndex - 1 - stop

\* ------------------------------------------------------------------- state
VARIABLES
  options,            \* this.options (converted, immutable)
  buffer,             \* this.buffer: the pending entry queue
  flushPromise,       \* this.flushPromise: "undefined" or "pending"
  isShutdown,         \* this.isShutdown
  pc,                 \* where ensureAllIsFlushed is suspended
  dataToWrite,        \* local of ensureAllIsFlushed: the batch taken
  fileHandle,         \* local of ensureAllIsFlushed: TRUE once assigned
  statSize,           \* stats.size seen by readFileTail
  truncatePosition,   \* result of buildInsertion (-1: write without position)
  insertion,          \* text handed to fileHandle.write
  thrown,             \* error the coroutine is about to reject with
  fileExists,         \* the file is present on disk
  file,               \* its content
  openHandles,        \* handles returned by fileOpen and not yet closed
  calls,              \* calls issued per file operation by the flush in flight
  nextId,             \* id of the next entry passed to append
  accepted,           \* entries pushed by append, in call order
  afterShutdown,      \* ids passed to append after a flush({shutdown: true}) call
  written,            \* entries of the batches whose write call succeeded
  initialEntries,     \* elements of the array the file held at construction
  ioFailures,         \* injected I/O failures: how many, and how many per write call site
  flushCalls,         \* explicit flush() calls made
  cyclesInFlight,     \* ensureAllIsFlushed invocations suspended on I/O
  waiters,            \* promises returned by append()/flush(), still pending
  settled,            \* promises settled by the last step
  shutdownRequested   \* some flush({shutdown: true}) call has been made

writerVars == <<options, buffer, flushPromise, isShutdown>>
cycleVars == <<pc, dataToWrite, fileHandle, statSize, truncatePosition, insertion, thrown>>
fileVars == <<fileExists, file, openHandles, calls>>
ghostVars == <<nextId, accepted, afterShutdown, written, initialEntries, ioFailures,
               flushCalls, cyclesInFlight, waiters, settled, shutdownRequested>>
vars == <<writerVars, cycleVars, fileVars, ghostVars>>

\* ------------------------------------------------------------ construction
Thresholds == {1, 2, Infinity}
Indents == {2}

convertOptions(optPretty, optIndent, optInitArray, optThreshold) ==
  [pretty |-> optPretty,
   indent |-> IF optPretty THEN optIndent ELSE 0,
   initArray |-> optInitArray,
   bufferFlushThreshold |-> optThreshold]

\* files the writer may be pointed at: [exists, text, entries]; missing,
\* empty, blank, or holding an array
InitialFiles ==
  {[exists |-> FALSE, text |-> <<>>, entries |-> <<>>],
   [exists |-> TRUE, text |-> <<>>, entries |-> <<>>],
   [exists |-> TRUE, text |-> <<" ", "\n">>, entries |-> <<>>]}
  \cup {[exists |-> TRUE, text |-> Stringify(es, ind), entries |-> es] :
          es \in {<<>>, <<[id |-> 0, shape |-> "num"]>>, <<[id |-> 0, shape |-> "arr"]>>},
          ind \in Indents}

NoCalls == [open |-> 0, stat |-> 0, read |-> 0, truncate |-> 0, write |-> 0, close |-> 0]

\* the field initializers of the class, the locals of a cycle not yet run, and
\* one of `files` on disk
Fresh(files) ==
  /\ buffer = <<>>
  /\ flushPromise = "undefined"
  /\ isShutdown = FALSE
  /\ dataToWrite = <<>>
  /\ fileHandle = FALSE
  /\ statSize = 0
  /\ truncatePosition = -1
  /\ insertion = <<>>
  /\ thrown = "none"
  /\ \E f \in files :
       /\ fileExists = f.exists
       /\ file = f.text
       /\ initialEntries = f.entries
  /\ openHandles = 0
  /\ calls = NoCalls
  /\ nextId = 1
  /\ accepted = <<>>
  /\ afterShutdown = {}
  /\ written = <<>>
  /\ ioFailures = [total |-> 0, writeArray |-> 0, write |-> 0]
  /\ flushCalls = 0
  /\ cyclesInFlight = 0
  /\ waiters = {}
  /\ settled = {}
  /\ shutdownRequested = FALSE

\* a writer constructed on one of `files`
Constructed(files) ==
  /\ \E p \in BOOLEAN, i \in Indents, a \in BOOLEAN, t \in Thresholds :
       options = convertOptions(p, i, a, t)
  /\ pc = "idle"
  /\ Fresh(files)

Init == Constructed(InitialFiles)

\* Files holding a valid JSON array written by other hands: compact or
\* indented by 2 or 4, ending in a newline, or padded with blanks before or
\* after the closing bracket up to the width of the tail window.
FileIndents == {0, 2, 4}

StoredArrays == {<<>>, <<[id |-> 0, shape |-> "num"]>>, <<[id |-> 0, shape |-> "arr"]>>}

PaddedInside(entries) ==
  <<"[">> \o JoinEntries(entries, 0) \o Spaces(TailWindow) \o <<"]">>

PaddedAfter(entries) == Stringify(entries, 0) \o Spaces(TailWindow)

ArrayFiles ==
  {[exists |-> TRUE, text |-> Stringify(es, ind), entries |-> es] :
     es \in StoredArrays, ind \in FileIndents}
  \cup {[exists |-> TRUE, text |-> Stringify(es, 2) \o <<"\n">>, entries |-> es] :
          es \in {<<[id |-> 0, shape |-> "num"]>>}}
  \cup {[exists |-> TRUE, text |-> PaddedInside(es), entries |-> es] :
          es \in {<<[id |-> 0, shape |-> "num"]>>}}
  \cup {[exists |-> TRUE, text |-> PaddedAfter(es), entries |-> es] :
          es \in {<<[id |-> 0, shape |-> "num"]>>}}

PatchInit == Constructed(ArrayFiles)

\* Files produced by JSON.stringify with the writer's own settings, among
\* them an indent above ten and an array holding a non-ASCII string; and the
\* empty file, which the writer fills itself.
SerializedIndents == {2, 4, 11}

SerializedArrays == StoredArrays \cup {<<[id |-> 0, shape |-> "str"]>>}

SerializedInit ==
  /\ \E p \in BOOLEAN, i \in SerializedIndents, t \in {1, 2} :
       options = convertOptions(p, i, TRUE, t)
  /\ pc = "idle"
  /\ Fresh({[exists |-> TRUE, text |-> <<>>, entries |-> <<>>]}
           \cup {[exists |-> TRUE, text |-> Utf8Bytes(Stringify(es, options.indent)),
                  entries |-> es] : es \in SerializedArrays})

\* ------------------------------------------------------- tail scan and patch
\* slip: the window is read from the start of the file
readFileTail_FromStart(content, size) ==
  LET bufferSize == IF size < TailWindow THEN size ELSE TailWindow
      fileTail == BufferToString(Slice(content, 0, bufferSize))
  IN  [fileTail |-> fileTail,
       lastBracketIndex |-> LastIndexOfBracket(fileTail),
       trimmedFileTail |-> Trim(fileTail),
       readPosition |-> 0]

\* readFileTail once stat and read have completed
readFileTail(content, size) ==
  LET bufferSize == IF size < TailWindow THEN size ELSE TailWindow
      readPosition == size - bufferSize
      fileTail == BufferToString(Slice(content, readPosition, readPosition + bufferSize))
  IN  [fileTail |-> fileTail,
       lastBracketIndex |-> LastIndexOfBracket(fileTail),
       trimmedFileTail |-> Trim(fileTail),
       readPosition |-> readPosition]

\* slip: the separating comma is never inserted
shouldInsertComma_Never(trimmedFileTail) == FALSE

\* /[^\s[]\s*]$/.test(trimmedFileTail)
shouldInsertComma(trimmedFileTail) ==
  LET n == Len(trimmedFileTail)
      solid == {i \in 1..(n - 1) : trimmedFileTail[i] \notin WS}
  IN  /\ n >= 2
      /\ trimmedFileTail[n] = "]"
      /\ solid # {}
      /\ trimmedFileTail[CHOOSE i \in solid : \A j \in solid : j <= i] # "["

\* JSON.stringify(dataToWrite, null, this.options.indent): what one flush
\* writes into an empty file
ArrayLiteral(batch) == Stringify(batch, options.indent)

buildInsertion(batch, tail) ==
  LET jsonString == removeFirstAndLastBrackets(Stringify(batch, options.indent))
      maybeNewLine == IF options.pretty THEN <<"\n">> ELSE <<>>
      maybeIndentation == IF options.pretty THEN Spaces(options.indent) ELSE <<>>
  IN  [insertion |->
         (IF shouldInsertComma(tail.trimmedFileTail) THEN <<",">> ELSE <<>>)
         \o maybeNewLine \o maybeIndentation \o jsonString \o maybeNewLine \o <<"]">>,
       truncatePosition |->
         tail.readPosition + tail.lastBracketIndex
         - countNewLinesAndSpacesBeforeLastBracket(tail.fileTail, tail.lastBracketIndex,
                                                   options.pretty)]

\* ---------------------------------------------------------- the file handle
\* write(data, position); position -1 stands for an omitted position
FileWrite(content, data, position) ==
  LET at == IF position = -1 THEN Len(content) ELSE position
      bytes == Utf8Bytes(data)
  IN  Slice(content, 0, at) \o bytes \o Slice(content, at + Len(bytes), Len(content))

\* slip: truncate leaves the file as it is
FileTruncate_Ignored(content, length) == content

FileTruncate(content, length) == Slice(content, 0, length)

\* slip: the file is always opened in create-or-append mode
OpenMode_AlwaysAppend == "a+"

\* flags passed to fileOpen
OpenMode == IF options.initArray THEN "a+" ELSE "r+"

Issue(op) == [calls EXCEPT ![op] = @ + 1]

CanInject == ioFailures.total < MaxFailures

\* ------------------------------------------------------ ensureAllIsFlushed
\* slip: the batch is pushed back behind the queue
Restore_AtBack(batch, queue) == queue \o batch

\* slip: the batch is not put back
Restore_Dropped(batch, queue) == queue

\* buffer.unshift(...dataToWrite)
Restore(batch, queue) == batch \o queue

\* slip: the early return on an empty queue is missing
NothingToFlush_Skipped(queue) == FALSE

\* `if (this.buffer.length === 0) return` at the top of ensureAllIsFlushed
NothingToFlush(queue) == Len(queue) = 0

\* slip: the loop body runs once
LoopAgain_Never(queue) == FALSE

\* `while (this.buffer.length > 0)` evaluated after a completed write
LoopAgain(queue) == Len(queue) > 0

\* one turn of the while loop up to the await of fileOpen
TakeBatch(queue) ==
  /\ dataToWrite' = queue
  /\ buffer' = <<>>
  /\ pc' = "open"
  /\ calls' = Issue("open")

\* slip: the catch block puts the batch back and the loop tries again
Throw_Retries(op) ==
  /\ buffer' = Restore(dataToWrite, buffer)
  /\ thrown' = op
  /\ pc' = "open"
  /\ calls' = Issue("open")
  /\ cyclesInFlight' = cyclesInFlight

\* catch block, then the finally block up to its await
Throw(op) ==
  /\ buffer' = Restore(dataToWrite, buffer)
  /\ thrown' = op
  /\ IF fileHandle
       THEN /\ pc' = "close"
            /\ calls' = Issue("close")
            /\ cyclesInFlight' = cyclesInFlight
       ELSE /\ pc' = "settle"
            /\ calls' = calls
            /\ cyclesInFlight' = cyclesInFlight - 1

Inject(op) ==
  /\ CanInject
  /\ ioFailures' = [total |-> ioFailures.total + 1,
                    writeArray |-> ioFailures.writeArray + (IF op = "writeArray" THEN 1 ELSE 0),
                    write |-> ioFailures.write + (IF op = "write" THEN 1 ELSE 0)]

OpenOk ==
  /\ pc = "open"
  /\ fileExists \/ OpenMode = "a+"
  /\ fileExists' = TRUE
  /\ fileHandle' = TRUE
  /\ openHandles' = openHandles + 1
  /\ pc' = "stat"
  /\ calls' = Issue("stat")
  /\ settled' = {}
  /\ UNCHANGED <<writerVars, dataToWrite, statSize, truncatePosition, insertion, thrown, file,
                 nextId, accepted, afterShutdown, written, initialEntries, ioFailures, flushCalls,
                 cyclesInFlight, waiters, shutdownRequested>>

OpenFail ==
  /\ pc = "open"
  /\ IF ~fileExists /\ OpenMode = "r+"
       THEN ioFailures' = ioFailures
       ELSE Inject("open")
  /\ Throw("open")
  /\ settled' = {}
  /\ UNCHANGED <<options, flushPromise, isShutdown, dataToWrite, fileHandle, statSize,
                 truncatePosition, insertion, fileExists, file, openHandles,
                 nextId, accepted, afterShutdown, written, initialEntries, flushCalls,
                 waiters, shutdownRequested>>

StatOk ==
  /\ pc = "stat"
  /\ statSize' = Len(file)
  /\ pc' = "read"
  /\ calls' = Issue("read")
  /\ settled' = {}
  /\ UNCHANGED <<writerVars, dataToWrite, fileHandle, truncatePosition, insertion, thrown,
                 fileExists, file, openHandles,
                 nextId, accepted, afterShutdown, written, initialEntries, ioFailures, flushCalls,
                 cyclesInFlight, waiters, shutdownRequested>>

\* failure of an awaited call made through the handle
IoFail(at, op) ==
  /\ pc = at
  /\ Inject(op)
  /\ Throw(op)
  /\ settled' = {}
  /\ UNCHANGED <<options, flushPromise, isShutdown, dataToWrite, fileHandle, statSize,
                 truncatePosition, insertion, fileExists, file, openHandles,
                 nextId, accepted, afterShutdown, written, initialEntries, flushCalls,
                 waiters, shutdownRequested>>

StatFail == IoFail("stat", "stat")

\* slip: an empty tail never starts a fresh array
IsFreshArray_Never(tail) == FALSE

\* `trimmedFileTail === '' && this.options.initArray`
IsFreshArray(tail) == tail.trimmedFileTail = <<>> /\ options.initArray

\* slip: a tail without a closing bracket is patched all the same
IsMalformed_Never(tail) == FALSE

\* `lastBracketIndex === -1`
IsMalformed(tail) == tail.lastBracketIndex = -1

\* read completes; the code runs on to the next await or throws
ReadOk ==
  /\ pc = "read"
  /\ \E tail \in {readFileTail(file, statSize)} :
         IF IsFreshArray(tail)
           THEN /\ insertion' = ArrayLiteral(dataToWrite)
                /\ truncatePosition' = -1
                /\ pc' = "writeArray"
                /\ calls' = Issue("write")
                /\ UNCHANGED <<buffer, thrown, cyclesInFlight>>
         ELSE IF IsMalformed(tail)
           THEN /\ Throw("malformed")
                /\ UNCHANGED <<insertion, truncatePosition>>
         ELSE LET patch == buildInsertion(dataToWrite, tail)
              IN  /\ insertion' = patch.insertion
                  /\ truncatePosition' = patch.truncatePosition
                  /\ pc' = "truncate"
                  /\ calls' = Issue("truncate")
                  /\ UNCHANGED <<buffer, thrown, cyclesInFlight>>
  /\ settled' = {}
  /\ UNCHANGED <<options, flushPromise, isShutdown, dataToWrite, fileHandle, statSize,
                 fileExists, file, openHandles,
                 nextId, accepted, afterShutdown, written, initialEntries, ioFailures, flushCalls,
                 waiters, shutdownRequested>>

ReadFail == IoFail("read", "read")

TruncateOk ==
  /\ pc = "truncate"
  /\ file' = FileTruncate(file, truncatePosition)
  /\ pc' = "write"
  /\ calls' = Issue("write")
  /\ settled' = {}
  /\ UNCHANGED <<writerVars, dataToWrite, fileHandle, statSize, truncatePosition, insertion,
                 thrown, fileExists, openHandles,
                 nextId, accepted, afterShutdown, written, initialEntries, ioFailures, flushCalls,
                 cyclesInFlight, waiters, shutdownRequested>>

TruncateFail == IoFail("truncate", "truncate")

\* either write call completes; the while condition is evaluated again
WriteOk ==
  /\ pc \in {"writeArray", "write"}
  /\ file' = FileWrite(file, insertion, truncatePosition)
  /\ written' = written \o dataToWrite
  /\ IF LoopAgain(buffer)
       THEN TakeBatch(buffer)
       ELSE /\ pc' = "close"
            /\ calls' = Issue("close")
            /\ UNCHANGED <<buffer, dataToWrite>>
  /\ settled' = {}
  /\ UNCHANGED <<options, flushPromise, isShutdown, fileHandle, statSize, truncatePosition,
                 insertion, thrown, fileExists, openHandles,
                 nextId, accepted, afterShutdown, initialEntries, ioFailures, flushCalls,
                 cyclesInFlight, waiters, shutdownRequested>>

WriteArrayFail == IoFail("writeArray", "writeArray")

WriteFail == IoFail("write", "write")

CloseOk ==
  /\ pc = "close"
  /\ openHandles' = openHandles - 1
  /\ pc' = "settle"
  /\ cyclesInFlight' = cyclesInFlight - 1
  /\ settled' = {}
  /\ UNCHANGED <<writerVars, dataToWrite, fileHandle, statSize, truncatePosition, insertion,
                 thrown, fileExists, file, calls,
                 nextId, accepted, afterShutdown, written, initialEntries, ioFailures, flushCalls,
                 waiters, shutdownRequested>>

\* close() rejects inside finally: its error replaces any pending one
CloseFail ==
  /\ pc = "close"
  /\ Inject("close")
  /\ thrown' = "close"
  /\ pc' = "settle"
  /\ cyclesInFlight' = cyclesInFlight - 1
  /\ settled' = {}
  /\ UNCHANGED <<writerVars, dataToWrite, fileHandle, statSize, truncatePosition, insertion,
                 fileExists, file, openHandles, calls,
                 nextId, accepted, afterShutdown, written, initialEntries, flushCalls,
                 waiters, shutdownRequested>>

\* ------------------------------------------------------------ flush, append
\* slip: flush() never looks at the handle
FlushInFlight_Ignored == FALSE

\* `if (this.flushPromise)` at the top of flush()
FlushInFlight == flushPromise # "undefined"

\* slip: a flush that joins one in flight does not latch
LatchOnJoin_Skipped(shutdown) == isShutdown

\* `if (shutdown) this.isShutdown = true` on the path that joins a flush
LatchOnJoin(shutdown) == isShutdown \/ shutdown

\* the same statement on the path that starts a flush
LatchOnStart(shutdown) == isShutdown \/ shutdown

\* the promise handed to the caller of append()/flush()
Waiter(kind, shutdown, entry, joined, queue, log) ==
  [kind |-> kind, shutdown |-> shutdown, entry |-> entry, joined |-> joined,
   queued |-> Len(queue), acceptedBefore |-> Len(log)]

\* slip: a caller that joined the flush in flight is resolved regardless
Outcome_JoinedResolved(w, ok) ==
  [kind |-> w.kind, shutdown |-> w.shutdown, entry |-> w.entry, joined |-> w.joined,
   queued |-> w.queued, acceptedBefore |-> w.acceptedBefore, ok |-> (ok \/ w.joined),
   io |-> calls]

\* a settled promise: its outcome and the I/O calls its flush issued
Outcome(w, ok) ==
  [kind |-> w.kind, shutdown |-> w.shutdown, entry |-> w.entry, joined |-> w.joined,
   queued |-> w.queued, acceptedBefore |-> w.acceptedBefore, ok |-> ok, io |-> calls]

\* body of flush({shutdown}) run on the queue `queue`; ensureAllIsFlushed is
\* entered synchronously and runs up to its first await
FlushCall(queue, shutdown, kind, entry, log) ==
  IF FlushInFlight
    THEN /\ isShutdown' = LatchOnJoin(shutdown)
         /\ buffer' = queue
         /\ waiters' = waiters \cup {Waiter(kind, shutdown, entry, TRUE, queue, log)}
         /\ UNCHANGED <<flushPromise, pc, dataToWrite, fileHandle, thrown, calls,
                        cyclesInFlight>>
    ELSE /\ isShutdown' = LatchOnStart(shutdown)
         /\ flushPromise' = "pending"
         /\ waiters' = waiters \cup {Waiter(kind, shutdown, entry, FALSE, queue, log)}
         /\ fileHandle' = FALSE
         /\ thrown' = "none"
         /\ IF NothingToFlush(queue)
              THEN /\ pc' = "settle"
                   /\ buffer' = queue
                   /\ dataToWrite' = <<>>
                   /\ UNCHANGED <<calls, cyclesInFlight>>
              ELSE /\ TakeBatch(queue)
                   /\ cyclesInFlight' = cyclesInFlight + 1

flush(shutdown) ==
  /\ flushCalls < MaxFlushCalls
  /\ flushCalls' = flushCalls + 1
  /\ shutdownRequested' = (shutdownRequested \/ shutdown)
  /\ FlushCall(buffer, shutdown, "flush", 0, accepted)
  /\ settled' = {}
  /\ UNCHANGED <<options, statSize, truncatePosition, insertion, fileExists, file,
                 openHandles, nextId, accepted, afterShutdown, written, initialEntries,
                 ioFailures>>

\* slip: append() does not look at the latch
AppendAccepts_Always == TRUE

\* `if (this.isShutdown) return` at the top of append()
AppendAccepts == ~isShutdown

\* slip: the queue must exceed the threshold
isFull_Strict(queue) == Len(queue) > options.bufferFlushThreshold

isFull(queue) == Len(queue) >= options.bufferFlushThreshold

append(shape) ==
  /\ nextId <= MaxAppends
  /\ nextId' = nextId + 1
  /\ afterShutdown' = IF shutdownRequested THEN afterShutdown \cup {nextId}
                                           ELSE afterShutdown
  /\ settled' = {}
  /\ LET newData == [id |-> nextId, shape |-> shape]
     IN  IF ~AppendAccepts
           THEN UNCHANGED <<writerVars, cycleVars, fileVars, accepted, cyclesInFlight,
                            waiters>>
           ELSE /\ accepted' = Append(accepted, newData)
                /\ IF isFull(Append(buffer, newData))
                     THEN FlushCall(Append(buffer, newData), FALSE, "append", nextId,
                                    Append(accepted, newData))
                     ELSE /\ buffer' = Append(buffer, newData)
                          /\ UNCHANGED <<flushPromise, isShutdown, pc, dataToWrite,
                                         fileHandle, thrown, calls, cyclesInFlight, waiters>>
                /\ UNCHANGED <<options, statSize, truncatePosition, insertion, fileExists,
                               file, openHandles>>
  /\ UNCHANGED <<written, initialEntries, ioFailures, flushCalls, shutdownRequested>>

\* slip: the callbacks leave the handle in place
ClearedHandle_Kept == flushPromise

\* `this.flushPromise = undefined` in the then and the catch callback
ClearedHandle == "undefined"

\* the then/catch callback of flush(): clears the handle; the promise every
\* caller of this flush holds settles with the coroutine's outcome.  The
\* coroutine's locals are gone and the per-flush call counts start over.
Settle ==
  /\ pc = "settle"
  /\ flushPromise' = ClearedHandle
  /\ settled' = {Outcome(w, thrown = "none") : w \in waiters}
  /\ waiters' = {}
  /\ pc' = "idle"
  /\ thrown' = "none"
  /\ dataToWrite' = <<>>
  /\ fileHandle' = FALSE
  /\ statSize' = 0
  /\ truncatePosition' = -1
  /\ insertion' = <<>>
  /\ calls' = NoCalls
  /\ UNCHANGED <<options, buffer, isShutdown, fileExists, file, openHandles, nextId, accepted, afterShutdown, written,
                 initialEntries, ioFailures, flushCalls, cyclesInFlight, shutdownRequested>>

Next ==
  \/ \E shape \in Shapes : append(shape)
  \/ \E shutdown \in BOOLEAN : flush(shutdown)
  \/ OpenOk
  \/ OpenFail
  \/ StatOk
  \/ StatFail
  \/ ReadOk
  \/ ReadFail
  \/ TruncateOk
  \/ TruncateFail
  \/ WriteOk
  \/ WriteArrayFail
  \/ WriteFail
  \/ CloseOk
  \/ CloseFail
  \/ Settle

Spec == Init /\ [][Next]_vars

\* the writer pointed at a file that holds an array
PatchSpec == PatchInit /\ [][Next]_vars

SerializedSpec == SerializedInit /\ [][Next]_vars

\* ------------------------------------------------------------- construction
\* A JavaScript number passed as an option: the integer n, n + 0.5, either
\* infinity, NaN; or no value at all.
Num(n) == [kind |-> "int", n |-> n]

Half(n) == [kind |-> "frac", n |-> n]

PosInf == [kind |-> "inf", n |-> 0]

NegInf == [kind |-> "ninf", n |-> 0]

NaN == [kind |-> "nan", n |-> 0]

Undefined == [kind |-> "undefined", n |-> 0]

\* x >= k for an integer k
GreaterOrEqual(x, k) ==
  CASE x.kind \in {"int", "frac"} -> x.n >= k
    [] x.kind = "inf" -> TRUE
    [] OTHER -> FALSE

\* slip: fractions pass for integers
NumberIsInteger_Lax(x) == x.kind \in {"int", "frac"}

\* Number.isInteger(x)
NumberIsInteger(x) == x.kind = "int"

\* x ?? d
DefaultTo(x, d) == IF x = Undefined THEN d ELSE x

\* the number as the model's integers hold it
ToInt(x) == IF x = PosInf THEN Infinity ELSE x.n

\* validationOptions: the error thrown, "none" when it returns
validationOptions(filePath, raw) ==
  LET t == raw.bufferFlushThreshold
      i == raw.indent
  IN  IF Trim(filePath) = <<>> THEN "filePath"
      ELSE IF /\ t # Undefined
              /\ ~((GreaterOrEqual(t, 1) /\ NumberIsInteger(t)) \/ t = PosInf)
        THEN "bufferFlushThreshold"
      ELSE IF i # Undefined /\ ~(GreaterOrEqual(i, 0) /\ NumberIsInteger(i))
        THEN "indent"
      ELSE "none"

\* arguments handed to `new JappendWriter(filePath, options)`
RawPaths == {<<>>, <<" ">>, <<"/", "f">>}

RawThresholds == {Undefined, Num(-1), Num(0), Num(1), Num(2), Half(1), PosInf, NegInf, NaN}

RawIndents == {Undefined, Num(-1), Num(0), Num(2), Half(1), PosInf, NaN}

\* the moment `new JappendWriter(...)` is evaluated, on an empty file
ConstructInit ==
  /\ \E path \in RawPaths, t \in RawThresholds, i \in RawIndents, p \in BOOLEAN :
       options = [filePath |-> path, pretty |-> p, indent |-> i, initArray |-> TRUE,
                  bufferFlushThreshold |-> t]
  /\ pc = "new"
  /\ Fresh({[exists |-> TRUE, text |-> <<>>, entries |-> <<>>]})

\* the constructor: validate, then convert the options
construct ==
  /\ pc = "new"
  /\ LET error == validationOptions(options.filePath, options)
     IN  IF error # "none"
           THEN /\ pc' = "threw"
                /\ thrown' = error
                /\ options' = options
           ELSE /\ pc' = "idle"
                /\ thrown' = thrown
                /\ options' = convertOptions(options.pretty,
                                             ToInt(DefaultTo(options.indent, Num(2))),
                                             options.initArray,
                                             ToInt(DefaultTo(options.bufferFlushThreshold,
                                                             Num(1))))
  /\ UNCHANGED <<buffer, flushPromise, isShutdown, dataToWrite, fileHandle, statSize,
                 truncatePosition, insertion, fileVars, ghostVars>>

\* the methods exist only on a constructed writer
ConstructNext ==
  \/ construct
  \/ pc \notin {"new", "threw"} /\ Next

ConstructSpec == ConstructInit /\ [][ConstructNext]_vars

\* `new JappendWriter(path, {suppressThresholdFlushErrors: true, ...})`, the
\* call of the benchmark's fire-and-forget run, on one of the initial files
SuppressInit ==
  /\ \E t \in {Undefined, Num(2)}, p \in BOOLEAN, a \in BOOLEAN :
       options = [filePath |-> <<"/", "f">>, pretty |-> p, indent |-> Undefined,
                  initArray |-> a, bufferFlushThreshold |-> t,
                  suppressThresholdFlushErrors |-> TRUE]
  /\ pc = "new"
  /\ Fresh(InitialFiles)

\* writers constructed with error suppression requested
SuppressSpec == SuppressInit /\ [][ConstructNext]_vars

\* ----------------------------------------------------------------- jappend
\* Two calls of jappend(filePath, newData, options) on one path in one
\* process.  Each call constructs a writer of its own, so the fields of the
\* writer and the locals of its cycle exist once per call: in this
\* specification every such variable holds a function from the call to its
\* value.  The file is shared.  No file operation fails for outside reasons.
JappendCalls == {1, 2}

\* slip: the wrapper leaves the threshold unbounded
JappendThreshold_Unbounded == Infinity

\* `bufferFlushThreshold: 1` in jappend
JappendThreshold == 1

\* the argument of call w
NewData(w) == [id |-> w, shape |-> "num"]

\* bytes a read or a truncate past the end of the file yields
ZeroFill(n) == [i \in 1..n |-> "0x00"]

JappendFiles ==
  {[exists |-> TRUE, text |-> Stringify(es, ind), entries |-> es] :
     es \in {<<>>, <<[id |-> 0, shape |-> "num"]>>}, ind \in {0, 2}}

JappendInit ==
  /\ \E p \in BOOLEAN, a \in BOOLEAN :
       options = convertOptions(p, 2, a, JappendThreshold)
  /\ \E f \in (IF options.initArray
                 THEN {[exists |-> FALSE, text |-> <<>>, entries |-> <<>>],
                       [exists |-> TRUE, text |-> <<>>, entries |-> <<>>]}
                 ELSE {})
              \cup {g \in JappendFiles : g.text = Stringify(g.entries, options.indent)} :
       /\ fileExists = f.exists
       /\ file = f.text
       /\ initialEntries = f.entries
  /\ buffer = [w \in JappendCalls |-> <<>>]
  /\ flushPromise = [w \in JappendCalls |-> "undefined"]
  /\ isShutdown = [w \in JappendCalls |-> FALSE]
  /\ pc = [w \in JappendCalls |-> "new"]
  /\ dataToWrite = [w \in JappendCalls |-> <<>>]
  /\ fileHandle = [w \in JappendCalls |-> FALSE]
  /\ statSize = [w \in JappendCalls |-> 0]
  /\ truncatePosition = [w \in JappendCalls |-> -1]
  /\ insertion = [w \in JappendCalls |-> <<>>]
  /\ thrown = [w \in JappendCalls |-> "none"]
  /\ openHandles = 0
  /\ calls = NoCalls
  /\ nextId = 1
  /\ accepted = <<>>
  /\ afterShutdown = {}
  /\ written = <<>>
  /\ ioFailures = [total |-> 0, writeArray |-> 0, write |-> 0]
  /\ flushCalls = 0
  /\ cyclesInFlight = 0
  /\ waiters = {}
  /\ settled = {}
  /\ shutdownRequested = FALSE

\* what no step of a jappend call touches
JappendFrame ==
  UNCHANGED <<options, isShutdown, calls, nextId, afterShutdown, initialEntries, ioFailures,
              flushCalls, shutdownRequested>>

\* catch block of call w, then finally up to its await
JappendThrow(w, op) ==
  /\ buffer' = [buffer EXCEPT ![w] = Restore(dataToWrite[w], @)]
  /\ thrown' = [thrown EXCEPT ![w] = op]
  /\ pc' = [pc EXCEPT ![w] = IF fileHandle[w] THEN "close" ELSE "settle"]

\* jappend(): new JappendWriter(..., {bufferFlushThreshold: 1}), append(newData)
\* up to the first await; the promise records whether the other call was in
\* flight when this one started
JappendStart(w) ==
  /\ pc[w] = "new"
  /\ accepted' = Append(accepted, NewData(w))
  /\ IF isFull(<<NewData(w)>>)
       THEN /\ buffer' = buffer
            /\ dataToWrite' = [dataToWrite EXCEPT ![w] = <<NewData(w)>>]
            /\ flushPromise' = [flushPromise EXCEPT ![w] = "pending"]
            /\ pc' = [pc EXCEPT ![w] = "open"]
            /\ cyclesInFlight' = cyclesInFlight + 1
            /\ waiters' = waiters \cup {[entry |-> w, concurrent |-> cyclesInFlight > 0]}
            /\ settled' = settled
       ELSE /\ buffer' = [buffer EXCEPT ![w] = <<NewData(w)>>]
            /\ pc' = [pc EXCEPT ![w] = "done"]
            /\ settled' = settled \cup {[entry |-> w, concurrent |-> cyclesInFlight > 0,
                                         ok |-> TRUE]}
            /\ UNCHANGED <<dataToWrite, flushPromise, cyclesInFlight, waiters>>
  /\ UNCHANGED <<fileHandle, statSize, truncatePosition, insertion, thrown, fileVars, written>>
  /\ JappendFrame

JappendOpen(w) ==
  /\ pc[w] = "open"
  /\ IF ~fileExists /\ OpenMode = "r+"
       THEN /\ JappendThrow(w, "open")
            /\ UNCHANGED <<fileHandle, fileExists, openHandles>>
       ELSE /\ fileExists' = TRUE
            /\ fileHandle' = [fileHandle EXCEPT ![w] = TRUE]
            /\ openHandles' = openHandles + 1
            /\ pc' = [pc EXCEPT ![w] = "stat"]
            /\ UNCHANGED <<buffer, thrown>>
  /\ UNCHANGED <<flushPromise, dataToWrite, statSize, truncatePosition, insertion, file,
                 accepted, written, cyclesInFlight, waiters, settled>>
  /\ JappendFrame

JappendStat(w) ==
  /\ pc[w] = "stat"
  /\ statSize' = [statSize EXCEPT ![w] = Len(file)]
  /\ pc' = [pc EXCEPT ![w] = "read"]
  /\ UNCHANGED <<buffer, flushPromise, dataToWrite, fileHandle, truncatePosition, insertion,
                 thrown, fileVars, accepted, written, cyclesInFlight, waiters, settled>>
  /\ JappendFrame

\* the read fills a zeroed buffer of the size stat reported with what the
\* file holds now
JappendRead(w) ==
  /\ pc[w] = "read"
  /\ \E tail \in {readFileTail(IF Len(file) < statSize[w]
                                 THEN file \o ZeroFill(statSize[w] - Len(file))
                                 ELSE file,
                               statSize[w])} :
       IF IsFreshArray(tail)
         THEN /\ insertion' = [insertion EXCEPT ![w] = ArrayLiteral(dataToWrite[w])]
              /\ truncatePosition' = [truncatePosition EXCEPT ![w] = -1]
              /\ pc' = [pc EXCEPT ![w] = "writeArray"]
              /\ UNCHANGED <<buffer, thrown>>
       ELSE IF IsMalformed(tail)
         THEN /\ JappendThrow(w, "malformed")
              /\ UNCHANGED <<insertion, truncatePosition>>
       ELSE LET patch == buildInsertion(dataToWrite[w], tail)
            IN  /\ insertion' = [insertion EXCEPT ![w] = patch.insertion]
                /\ truncatePosition' = [truncatePosition EXCEPT ![w] = patch.truncatePosition]
                /\ pc' = [pc EXCEPT ![w] = "truncate"]
                /\ UNCHANGED <<buffer, thrown>>
  /\ UNCHANGED <<flushPromise, dataToWrite, fileHandle, statSize, fileVars, accepted, written,
                 cyclesInFlight, waiters, settled>>
  /\ JappendFrame

\* truncate(len): cuts the file, or extends it with zero bytes
JappendTruncate(w) ==
  /\ pc[w] = "truncate"
  /\ file' = IF truncatePosition[w] > Len(file)
               THEN file \o ZeroFill(truncatePosition[w] - Len(file))
               ELSE FileTruncate(file, truncatePosition[w])
  /\ pc' = [pc EXCEPT ![w] = "write"]
  /\ UNCHANGED <<buffer, flushPromise, dataToWrite, fileHandle, statSize, truncatePosition,
                 insertion, thrown, fileExists, openHandles, accepted, written,
                 cyclesInFlight, waiters, settled>>
  /\ JappendFrame

\* offsets at which write(data, position) may put the data: the end of the
\* file when no position is given; the position, or on a handle opened with
\* 'a+' the end of the file, where the platform appends whatever the position
WriteOffsets(w) ==
  IF truncatePosition[w] = -1 THEN {Len(file)}
  ELSE IF OpenMode = "a+" THEN {truncatePosition[w], Len(file)}
  ELSE {truncatePosition[w]}

\* either write call of call w completes; its queue is empty, the loop ends
JappendWrite(w) ==
  /\ pc[w] \in {"writeArray", "write"}
  /\ \E at \in WriteOffsets(w) :
       file' = FileWrite(IF at > Len(file) THEN file \o ZeroFill(at - Len(file)) ELSE file,
                         insertion[w], at)
  /\ written' = written \o dataToWrite[w]
  /\ ~LoopAgain(buffer[w])
  /\ pc' = [pc EXCEPT ![w] = "close"]
  /\ UNCHANGED <<buffer, flushPromise, dataToWrite, fileHandle, statSize, truncatePosition,
                 insertion, thrown, fileExists, openHandles, accepted, cyclesInFlight,
                 waiters, settled>>
  /\ JappendFrame

JappendClose(w) ==
  /\ pc[w] = "close"
  /\ openHandles' = openHandles - 1
  /\ pc' = [pc EXCEPT ![w] = "settle"]
  /\ UNCHANGED <<buffer, flushPromise, dataToWrite, fileHandle, statSize, truncatePosition,
                 insertion, thrown, fileExists, file, accepted, written, cyclesInFlight,
                 waiters, settled>>
  /\ JappendFrame

\* the callbacks of flush() run, then `await jappendWriter.append(newData)`
\* resumes and the promise of jappend settles
JappendSettle(w) ==
  /\ pc[w] = "settle"
  /\ flushPromise' = [flushPromise EXCEPT ![w] = ClearedHandle]
  /\ pc' = [pc EXCEPT ![w] = "done"]
  /\ cyclesInFlight' = cyclesInFlight - 1
  /\ \E p \in {q \in waiters : q.entry = w} :
       /\ waiters' = waiters \ {p}
       /\ settled' = settled \cup {[entry |-> w, concurrent |-> p.concurrent,
                                    ok |-> thrown[w] = "none"]}
  /\ UNCHANGED <<buffer, dataToWrite, fileHandle, statSize, truncatePosition, insertion,
                 thrown, fileVars, accepted, written>>
  /\ JappendFrame

JappendNext ==
  \E w \in JappendCalls :
    \/ JappendStart(w)
    \/ JappendOpen(w)
    \/ JappendStat(w)
    \/ JappendRead(w)
    \/ JappendTruncate(w)
    \/ JappendWrite(w)
    \/ JappendClose(w)
    \/ JappendSettle(w)

JappendSpec == JappendInit /\ [][JappendNext]_vars

\* fileOpen with 'r+' on a missing file: ENOENT
OpenMissing ==
  /\ ~fileExists
  /\ OpenMode = "r+"
  /\ OpenFail

\* the steps of a run in which no file operation is made to fail
NextIoSucceeds ==
  \/ \E shape \in Shapes : append(shape)
  \/ \E shutdown \in BOOLEAN : flush(shutdown)
  \/ OpenOk
  \/ OpenMissing
  \/ StatOk
  \/ ReadOk
  \/ TruncateOk
  \/ WriteOk
  \/ CloseOk
  \/ Settle

\* the event loop at work: an awaited file operation completes, a promise
\* callback runs
EventLoop ==
  /\ pc # "idle"
  /\ (OpenOk \/ OpenMissing \/ StatOk \/ ReadOk \/ TruncateOk \/ WriteOk \/ CloseOk
      \/ Settle)

\* a writer with the default threshold writing compact JSON to a file that
\* is missing, empty or holds the empty array
FairInit ==
  /\ Init
  /\ options.bufferFlushThreshold = 1
  /\ ~options.pretty
  /\ file \in {<<>>, <<"[", "]">>}

\* Every awaited file operation completes and every promise callback runs;
\* nothing obliges the caller to call append or flush again.
FairSpec == FairInit /\ [][NextIoSucceeds]_vars /\ WF_vars(EventLoop)

TypeOK ==
  /\ pc \in {"idle", "open", "stat", "read", "writeArray", "truncate", "write", "close",
             "settle"}
  /\ flushPromise \in {"undefined", "pending"}
  /\ isShutdown \in BOOLEAN
  /\ cyclesInFlight \in 0..1
  /\ openHandles >= 0

\* ===================================================================
\* Properties
\* ===================================================================
Ids(entries) == {entries[i].id : i \in 1..Len(entries)}

Suspended == pc \in {"open", "stat", "read", "writeArray", "truncate", "write", "close"}

\* the batch taken from the queue and neither written nor put back yet
InFlightBatch ==
  IF pc \in {"open", "stat", "read", "writeArray", "truncate", "write"}
    THEN dataToWrite ELSE <<>>

\* the entry with this id occurs in the file's text (ids are distinct digits)
InFile(id) == Digit(id) \in Range(file)

\* the file's text parses as the array of these entries
JSONEquals(text, entries) == Strip(text) = Stringify(entries, 0)

\* C1: at most one ensureAllIsFlushed cycle is in flight at any time, and a
\* cycle starts only in a step taken while flushPromise is undefined.
C1_OneCycleInFlight ==
  /\ [](cyclesInFlight <= 1 /\ (cyclesInFlight = 1 => flushPromise = "pending"))
  /\ [][cyclesInFlight' > cyclesInFlight => flushPromise = "undefined"]_vars

\* a flush call has joined a cycle that is between truncate and write
C1_Witness ==
  /\ pc = "write"
  /\ cyclesInFlight = 1
  /\ \E w \in waiters : w.kind = "flush" /\ w.joined

\* C2: the entries written to the file, then the batch being written, then
\* the queue, are exactly the entries append accepted, in append order.
C2_NoLossNoDupNoReorder == written \o InFlightBatch \o buffer = accepted

\* after an I/O failure: one entry is written, one is being written
C2_Witness ==
  /\ ioFailures.total > 0
  /\ written # <<>>
  /\ InFlightBatch # <<>>
  /\ pc = "write"

\* C3: a flush call made while a flush is in flight changes nothing of the
\* cycle or the file; no promise outlives the handle, so it settles in the
\* step the in-flight one does; and when a flush that found entries queued and
\* a flush that joined it resolve with no entry appended since the first call,
\* that flush issued exactly one write (and at most one truncate before it).
C3_JoinedFlush ==
  /\ [](flushPromise = "undefined" => waiters = {})
  /\ [](\A a \in settled, b \in settled :
          (/\ a.kind = "flush" /\ ~a.joined /\ a.queued > 0 /\ a.ok
           /\ b.kind = "flush" /\ b.joined
           /\ b.acceptedBefore = a.acceptedBefore
           /\ Len(accepted) = a.acceptedBefore)
          => (a.io.write = 1 /\ a.io.truncate <= 1 /\ b.ok))
  /\ [][(flushCalls' # flushCalls /\ flushPromise # "undefined")
        => UNCHANGED <<flushPromise, cycleVars, fileVars, buffer, written,
                       cyclesInFlight>>]_vars

\* two flush calls, the second joining the first, have just resolved
C3_Witness ==
  \E a \in settled, b \in settled :
    /\ a.kind = "flush" /\ ~a.joined /\ a.queued > 0 /\ a.ok
    /\ b.kind = "flush" /\ b.joined /\ b.ok
    /\ b.acceptedBefore = a.acceptedBefore
    /\ Len(accepted) = a.acceptedBefore
    /\ a.io.write = 1

\* C4: when the promise of an append call that filled the queue resolves,
\* the entry it passed is in the file.
C4_AppendResolvedMeansWritten ==
  \A o \in settled : (o.kind = "append" /\ o.ok) => InFile(o.entry)

\* C5: no entry passed to append after a flush({shutdown: true}) call is ever
\* in the queue, in a batch, in the text being written or in the file.
C5_ShutdownMonotonic ==
  \A id \in afterShutdown :
    /\ id \notin Ids(buffer) \cup Ids(dataToWrite) \cup Ids(written)
    /\ Digit(id) \notin Range(insertion)
    /\ ~InFile(id)

\* an append came after a shutdown that joined a flush still in flight
C5_Witness ==
  /\ afterShutdown # {}
  /\ Suspended
  /\ \E w \in waiters : w.shutdown /\ w.joined

\* C6: once a flush({shutdown: true}) call has been made the latch is set, in
\* the state right after the call, idle or not; and the latch is never reset.
C6_ShutdownLatch ==
  /\ [](shutdownRequested => isShutdown)
  /\ [][isShutdown => isShutdown']_vars

\* the shutdown call joined a flush in flight
C6_Witness ==
  /\ isShutdown
  /\ Suspended
  /\ \E w \in waiters : w.shutdown /\ w.joined
  /\ \E w \in waiters : ~w.shutdown /\ ~w.joined

\* C7: when the promise of flush({shutdown: true}) resolves, the queue is
\* empty and every entry accepted before that call is in the file.
C7_ShutdownDrains ==
  \A o \in settled :
    (o.kind = "flush" /\ o.shutdown /\ o.ok)
    => /\ buffer = <<>>
       /\ \A i \in 1..o.acceptedBefore : InFile(accepted[i].id)

C9_Original ==
  (pc = "settle" /\ thrown # "none") => IsPrefix(dataToWrite, buffer)

\* C9 amended: when the flush promise is about to reject, the batch is back at
\* the front of the queue unless its write had succeeded and only close
\* failed; then it is in the file and not in the queue.
C9_RestoredBeforeReject ==
  (pc = "settle" /\ thrown # "none")
  => /\ dataToWrite # <<>>
     /\ IF IsSuffix(dataToWrite, written)
          THEN thrown = "close" /\ Ids(dataToWrite) \cap Ids(buffer) = {}
          ELSE IsPrefix(dataToWrite, buffer)

\* a failed cycle is about to reject with its batch back in the queue
C9_Witness ==
  /\ pc = "settle"
  /\ thrown \in {"open", "stat", "read", "truncate", "write", "writeArray"}
  /\ dataToWrite # <<>>
  /\ IsPrefix(dataToWrite, buffer)

\* a flush that ran a cycle after the one failure, a failed write
AfterOneFailedWrite ==
  /\ pc = "settle"
  /\ dataToWrite # <<>>
  /\ ioFailures.total = 1
  /\ thrown \notin {"write", "writeArray"}

\* the flush succeeded and the file holds the stored elements, then every
\* entry that was pending, in order, once
Recovered ==
  /\ thrown = "none"
  /\ IsSuffix(dataToWrite, written)
  /\ IsPrefix(written, accepted)
  /\ JSONEquals(file, initialEntries \o written)

\* C10 as stated: after one failed write, whatever the file held, the next
\* flush succeeds and the file holds the stored elements and then the entries.
C10_Original ==
  (AfterOneFailedWrite /\ ioFailures.write + ioFailures.writeArray = 1) => Recovered

\* C10 amended: this holds when the write that failed was the write of the
\* fresh array literal into an empty file.
C10_RecoversAfterFailedArrayWrite ==
  (AfterOneFailedWrite /\ ioFailures.writeArray = 1) => Recovered

\* the flush after the failed array write has written the restored entries
C10_Witness ==
  /\ AfterOneFailedWrite
  /\ ioFailures.writeArray = 1
  /\ Recovered
  /\ Len(written) >= 2

\* C11: when the flush promise is about to settle, on success or on failure,
\* every handle fileOpen returned during the flush has been closed, also when
\* the flush ran more than one open/write round.  (A flush whose close call
\* was itself rejected is left aside.)
C11_HandlesClosed ==
  (pc = "settle" /\ thrown # "close") => openHandles = 0

\* C12: a flush call made while no flush is in flight and the queue is empty
\* issues no file operation and leaves the file as it is, in the step of the
\* call and up to the moment its promise resolves.
C12_EmptyFlushNoIO ==
  /\ [][(flushCalls' # flushCalls /\ flushPromise = "undefined" /\ buffer = <<>>)
        => (/\ calls' = calls
            /\ UNCHANGED <<file, fileExists, openHandles, cyclesInFlight>>
            /\ pc' = "settle"
            /\ thrown' = "none")]_vars
  /\ [][(pc = "settle" /\ dataToWrite = <<>>)
        => UNCHANGED <<file, fileExists, openHandles, calls>>]_vars
  /\ [](\A o \in settled :
          (o.kind = "flush" /\ ~o.joined /\ o.queued = 0) => (o.ok /\ o.io = NoCalls))

\* flush() on an empty queue has returned a promise that is about to resolve;
\* the file holds an array
C12_Witness ==
  /\ pc = "settle"
  /\ thrown = "none"
  /\ dataToWrite = <<>>
  /\ file # <<>>
  /\ \E w \in waiters : w.kind = "flush" /\ ~w.joined /\ w.queued = 0

\* an append call that pushed its entry
Accepting == accepted' # accepted

\* C13: with threshold N and append calls awaited one after the other, an
\* append that leaves the queue shorter than N issues no file operation; the
\* append that brings it to N starts one flush on all N entries, and when its
\* promise resolves that flush has issued one open and one write and the N
\* entries are in the file; with an unbounded threshold nothing is written
\* before flush is called.
C13_ThresholdBuffering ==
  /\ [][(Accepting /\ Len(buffer) + 1 < options.bufferFlushThreshold)
        => (/\ buffer' = Append(buffer, accepted'[Len(accepted')])
            /\ calls' = calls
            /\ UNCHANGED <<file, fileExists, openHandles, pc, flushPromise, waiters>>)]_vars
  /\ [][(Accepting /\ flushPromise = "undefined"
         /\ Len(buffer) + 1 = options.bufferFlushThreshold)
        => (/\ dataToWrite' = Append(buffer, accepted'[Len(accepted')])
            /\ buffer' = <<>>
            /\ pc' = "open"
            /\ calls'.open = 1
            /\ cyclesInFlight' = cyclesInFlight + 1)]_vars
  /\ [](\A o \in settled :
          (/\ o.kind = "append" /\ ~o.joined /\ o.ok
           /\ o.queued = options.bufferFlushThreshold
           /\ Len(accepted) = o.acceptedBefore)
          => (/\ o.io.open = 1 /\ o.io.write = 1 /\ o.io.close = 1
              /\ IsSuffix(SubSeq(accepted, Len(accepted) - o.queued + 1, Len(accepted)),
                          written)
              /\ \A i \in (Len(accepted) - o.queued + 1)..Len(accepted) :
                   InFile(accepted[i].id)))
  /\ []((options.bufferFlushThreshold = Infinity /\ flushCalls = 0)
        => (pc = "idle" /\ calls = NoCalls /\ written = <<>> /\ buffer = accepted))

\* the second of two awaited appends with threshold 2 has resolved: one write
\* put both entries in the file
C13_Witness ==
  /\ options.bufferFlushThreshold = 2
  /\ \E o \in settled :
       /\ o.kind = "append" /\ ~o.joined /\ o.ok
       /\ o.queued = 2
       /\ o.io.write = 1
       /\ Len(accepted) = o.acceptedBefore
  /\ Len(written) = 2
  /\ InFile(1) /\ InFile(2)

\* C14: when the promise of a flush that ran a cycle resolves, every entry
\* accepted since that flush was started is in the file, and the file holds
\* the entries written so far in the order they were accepted.
C14_AppendedInFlightIsWritten ==
  \A o \in settled :
    (~o.joined /\ o.queued > 0 /\ o.ok)
    => /\ \A i \in (o.acceptedBefore + 1)..Len(accepted) : InFile(accepted[i].id)
       /\ IsPrefix(written, accepted)

\* C15: when every file operation succeeds, an entry that sits in the queue
\* while a flush is suspended on a file operation (it was accepted during
\* that flush) is eventually in the file, unless the flush is rejected for a
\* missing or malformed file.
C15_BufferedDuringFlushIsFlushed ==
  \A id \in 1..MaxAppends :
    (Suspended /\ id \in Ids(buffer) /\ thrown = "none") ~> (InFile(id) \/ thrown # "none")

\* C16 as stated: a flush writes only the entries queued when it was started;
\* when its promise resolves it has issued one write and the entries accepted
\* since are still in the queue, not in the file.
C16_Original ==
  \A o \in settled :
    (~o.joined /\ o.queued > 0 /\ o.ok)
    => /\ o.io.write = 1
       /\ \A i \in (o.acceptedBefore + 1)..Len(accepted) :
            accepted[i].id \in Ids(buffer) /\ ~InFile(accepted[i].id)

\* a write call of the cycle completes
WriteCompletes == pc \in {"writeArray", "write"} /\ written' # written

\* C16 amended: the flush chains itself.  When a write completes and entries
\* were appended meanwhile, the same flush (same handle, same callers) takes
\* them all as its next batch and issues another open; it goes on to close
\* only when the queue is empty, everything accepted being written.  So while
\* a successful flush closes or settles, the entries still queued, and not in
\* the file, are exactly those appended after its last write completed (the
\* written ones are in the file when no file operation has failed before).
C16_SelfChains ==
  /\ [][WriteCompletes
        => IF buffer # <<>>
             THEN /\ pc' = "open"
                  /\ dataToWrite' = buffer
                  /\ buffer' = <<>>
                  /\ calls'.open = calls.open + 1
                  /\ flushPromise' = "pending"
                  /\ UNCHANGED <<flushPromise, waiters, cyclesInFlight>>
             ELSE /\ pc' = "close"
                  /\ written' = accepted]_vars
  /\ []((pc \in {"close", "settle"} /\ thrown = "none" /\ dataToWrite # <<>>)
        => /\ accepted = written \o buffer
           /\ \A i \in 1..Len(buffer) : ~InFile(buffer[i].id)
           /\ ioFailures.total = 0 => \A i \in 1..Len(written) : InFile(written[i].id))

\* the flush has written its first batch and is opening the file again for an
\* entry appended meanwhile
C16_Witness ==
  /\ pc = "open"
  /\ fileHandle
  /\ thrown = "none"
  /\ written # <<>>
  /\ dataToWrite # <<>>
  /\ calls.open = 2
  /\ calls.write = 1

\* C17: the file holds a valid array A; as long as no file operation fails,
\* outside the gap between a truncate and its write the file parses as A
\* followed by the entries of the batches written so far, in order.
C17_PatchAppends ==
  (ioFailures.total = 0 /\ pc # "write") => JSONEquals(file, initialEntries \o written)

\* a JSON value of the model: a digit, or an array holding one digit
IsElement(s) ==
  \/ Len(s) = 1 /\ s[1] \in Range(DigitChars)
  \/ Len(s) = 3 /\ s[1] = "[" /\ s[2] \in Range(DigitChars) /\ s[3] = "]"

RECURSIVE IsElementList(_)
\* values separated by commas
IsElementList(s) ==
  \/ IsElement(s)
  \/ \E k \in 2..(Len(s) - 1) :
       /\ s[k] = ","
       /\ IsElement(SubSeq(s, 1, k - 1))
       /\ IsElementList(SubSeq(s, k + 1, Len(s)))

\* the text is a syntactically valid JSON array
IsJSONArray(text) ==
  LET s == Strip(text)
  IN  /\ Len(s) >= 2
      /\ s[1] = "["
      /\ s[Len(s)] = "]"
      /\ (Len(s) = 2 \/ IsElementList(SubSeq(s, 2, Len(s) - 1)))

\* C18: in the state where the promise of a flush that wrote to the file has
\* just resolved (no flush in flight), the file is a syntactically valid JSON
\* array, also when an earlier flush failed between truncate and write.
C18_ValidAfterSuccessfulFlush ==
  \A o \in settled : (o.ok /\ o.io.write > 0) => IsJSONArray(file)

\* C19: with auto-initialization on and nothing stored in the file at the
\* start, as long as no file operation fails the file parses, outside the gap
\* between a truncate and its write, as the text a single flush of all the
\* entries written so far puts into an empty file, however the entries were
\* split into batches (one flush per entry included).
C19_BatchedEqualsUnbatched ==
  (/\ options.initArray
   /\ initialEntries = <<>>
   /\ ioFailures.total = 0
   /\ written # <<>>
   /\ pc # "write")
  => Strip(file) = Strip(ArrayLiteral(written))

\* two entries appended one at a time, a flush per entry: the second flush
\* has patched the file and resolved
C19_Witness ==
  /\ options.initArray
  /\ initialEntries = <<>>
  /\ options.bufferFlushThreshold = 1
  /\ ioFailures.total = 0
  /\ Len(written) = 2
  /\ pc = "idle"
  /\ \E o \in settled : o.ok /\ o.queued = 1 /\ o.io.write = 1 /\ o.io.truncate = 1
  /\ Strip(file) = Strip(ArrayLiteral(written))

\* the awaited fileOpen call settles
OpenSettles == pc = "open" /\ pc' # "open"

\* C20: fileOpen is called with 'a+' when initArray is on and with 'r+' when
\* it is off.  So a missing file is created only when initArray is on; with
\* initArray off the open of a missing file is rejected, the batch goes back
\* to the queue and the file is still missing; an existing file is opened in
\* either mode unless the call fails.
C20_OpenMode ==
  /\ [][(~fileExists /\ fileExists') => (OpenSettles /\ options.initArray)]_vars
  /\ [][(OpenSettles /\ ~fileExists /\ ~options.initArray)
        => (/\ thrown' = "open"
            /\ ~fileExists'
            /\ openHandles' = openHandles
            /\ ioFailures' = ioFailures
            /\ IsPrefix(dataToWrite, buffer'))]_vars
  /\ [][(OpenSettles /\ ioFailures' = ioFailures /\ (fileExists \/ options.initArray))
        => (fileExists' /\ pc' = "stat" /\ openHandles' = openHandles + 1)]_vars
  /\ []((~options.initArray /\ ~fileExists) => (file = <<>> /\ written = <<>>))

\* with initArray off, the open of a missing file has just been rejected
C20_Witness ==
  /\ ~options.initArray
  /\ ~fileExists
  /\ thrown = "open"
  /\ pc = "settle"
  /\ ioFailures.total = 0
  /\ calls.open = 1
  /\ buffer # <<>>

\* the flush about to settle ran on an existing, empty file with
\* auto-initialization off, and no file operation was made to fail
EmptyFileNoInit ==
  /\ pc = "settle"
  /\ dataToWrite # <<>>
  /\ ~options.initArray
  /\ fileExists
  /\ file = <<>>
  /\ ioFailures.total = 0

\* C21 as stated: on an existing empty file with initArray off the flush
\* fails with the file-not-found error of fileOpen, and no truncate and no
\* write is issued.
C21_Original ==
  EmptyFileNoInit => (thrown = "open" /\ calls.truncate = 0 /\ calls.write = 0)

\* C21 amended: on an existing empty file with initArray off the file is
\* opened, its size and tail are read, and the flush fails with the
\* malformed-array error; no truncate and no write is issued, the file stays
\* empty, the handle is closed and the batch is back in the queue.  The
\* file-not-found error is the outcome for a missing file.
C21_EmptyFileIsMalformed ==
  /\ [](EmptyFileNoInit
        => /\ thrown = "malformed"
           /\ calls = [open |-> 1, stat |-> 1, read |-> 1, truncate |-> 0, write |-> 0,
                       close |-> 1]
           /\ openHandles = 0
           /\ IsPrefix(dataToWrite, buffer))
  /\ []((~options.initArray /\ file = <<>>) => (calls.truncate = 0 /\ calls.write = 0))
  /\ []((pc = "settle" /\ thrown = "open" /\ ioFailures.total = 0) => ~fileExists)

\* the append on an empty file with initArray off is about to be rejected
C21_Witness ==
  /\ EmptyFileNoInit
  /\ thrown = "malformed"
  /\ calls.read = 1
  /\ \E w \in waiters : w.kind = "append"

\* the awaited read completes on a tail that holds no closing bracket, the
\* fresh-array path not applying
ReadsNoBracket ==
  /\ pc = "read"
  /\ pc' # "read"
  /\ ioFailures' = ioFailures
  /\ LastIndexOfBracket(readFileTail(file, statSize).fileTail) = -1
  /\ ~(Trim(readFileTail(file, statSize).fileTail) = <<>> /\ options.initArray)

\* C22: when the tail read holds no closing bracket and the fresh-array path
\* does not apply, the cycle throws the malformed-array error in that step:
\* no truncate and no write is issued by the flush, the file is unchanged, the
\* batch is put back at the front of the queue, where it stays until the
\* promise is rejected (a later flush takes it again).
C22_MalformedNoWrite ==
  /\ [][ReadsNoBracket
        => (/\ thrown' = "malformed"
            /\ pc' = "close"
            /\ UNCHANGED <<file, fileExists>>
            /\ calls'.truncate = 0 /\ calls'.write = 0
            /\ buffer' = dataToWrite \o buffer)]_vars
  /\ []((thrown = "malformed" /\ pc \in {"close", "settle"})
        => /\ calls.truncate = 0 /\ calls.write = 0
           /\ dataToWrite # <<>>
           /\ IsPrefix(dataToWrite, buffer)
           /\ "]" \notin Range(readFileTail(file, Len(file)).fileTail))
  /\ [][(pc = "settle" /\ thrown = "malformed" /\ pc' = "idle")
        => (/\ \A o \in settled' : ~o.ok
            /\ IsPrefix(dataToWrite, buffer')
            /\ file' = file)]_vars

\* a file cut before its closing bracket by an earlier failed write is found
\* malformed: the handle is being closed, the batch is back in the queue
C22_Witness ==
  /\ thrown = "malformed"
  /\ pc = "close"
  /\ file # <<>>
  /\ ioFailures.write = 1
  /\ calls.truncate = 0
  /\ IsPrefix(dataToWrite, buffer)
  /\ dataToWrite # <<>>

\* the awaited read completes on a file that is empty or blank, initArray on
ReadsBlankFile ==
  /\ pc = "read"
  /\ pc' # "read"
  /\ ioFailures' = ioFailures
  /\ Strip(file) = <<>>
  /\ options.initArray

\* C23: when the file is empty or holds only whitespace and initArray is on,
\* the cycle goes from the read straight to one write, without position and
\* without truncate, of the array literal of its batch; when that write
\* completes the file is the old blanks followed by the literal and parses as
\* the batch.
C23_FreshArray ==
  /\ [][ReadsBlankFile
        => (/\ pc' = "writeArray"
            /\ insertion' = Stringify(dataToWrite, options.indent)
            /\ truncatePosition' = -1
            /\ calls'.write = calls.write + 1
            /\ calls'.truncate = calls.truncate
            /\ file' = file)]_vars
  /\ [](pc = "writeArray" => (Strip(file) = <<>> /\ options.initArray))
  /\ [][(pc = "writeArray" /\ written' # written)
        => (/\ file' = file \o Stringify(dataToWrite, options.indent)
            /\ JSONEquals(file', dataToWrite)
            /\ calls'.truncate = calls.truncate)]_vars
  /\ []((pc = "close" /\ thrown = "none" /\ calls.write = 1 /\ calls.truncate = 0)
        => /\ JSONEquals(file, dataToWrite)
           /\ IsSuffix(Stringify(dataToWrite, options.indent), file)
           /\ written = dataToWrite)

\* a blank file has received the array literal of a batch of two: one write,
\* no truncate
C23_Witness ==
  /\ pc = "close"
  /\ thrown = "none"
  /\ calls.write = 1
  /\ calls.truncate = 0
  /\ Len(dataToWrite) = 2
  /\ file = <<" ", "\n">> \o Stringify(dataToWrite, options.indent)
  /\ JSONEquals(file, dataToWrite)

\* a positive integer, or Infinity
IsPositiveIntegerOrInfinity(x) == (x.kind = "int" /\ x.n > 0) \/ x.kind = "inf"

\* a non-negative integer
IsNonNegativeInteger(x) == x.kind = "int" /\ x.n >= 0

\* the arguments the claim calls invalid
InvalidArguments(raw) ==
  \/ \A k \in 1..Len(raw.filePath) : raw.filePath[k] \in WS
  \/ raw.bufferFlushThreshold # Undefined
     /\ ~IsPositiveIntegerOrInfinity(raw.bufferFlushThreshold)
  \/ raw.indent # Undefined /\ ~IsNonNegativeInteger(raw.indent)

\* C24: the constructor throws exactly for a file path that is blank, a
\* bufferFlushThreshold that is given and neither a positive integer nor
\* Infinity, or an indent that is given and not a non-negative integer; it
\* throws before any file operation, and no method of the writer ever runs;
\* every other configuration yields an idle writer with the options converted.
C24_ValidationFailsFast ==
  /\ [][pc = "new"
        => IF InvalidArguments(options)
             THEN /\ pc' = "threw"
                  /\ thrown' # "none"
                  /\ UNCHANGED <<fileVars, buffer, flushPromise, ghostVars>>
             ELSE /\ pc' = "idle"
                  /\ thrown' = "none"
                  /\ options'.bufferFlushThreshold \in {1, 2, Infinity}
                  /\ options'.indent \in {0, 2}
                  /\ UNCHANGED <<fileVars, buffer, flushPromise, ghostVars>>]_vars
  /\ [](pc = "threw"
        => /\ calls = NoCalls /\ openHandles = 0 /\ file = <<>>
           /\ accepted = <<>> /\ flushCalls = 0 /\ flushPromise = "undefined")
  /\ [][pc = "threw" => pc' = "threw"]_vars

\* the constructor has thrown on a threshold of 1.5, the other arguments
\* being valid
C24_Witness ==
  /\ pc = "threw"
  /\ thrown = "bufferFlushThreshold"
  /\ options.bufferFlushThreshold = Half(1)
  /\ options.filePath = <<"/", "f">>
  /\ options.indent = Num(2)
  /\ calls = NoCalls

\* the promise callback of a failed flush runs
FailedFlushSettles == pc = "settle" /\ thrown # "none" /\ pc' = "idle"

\* C25: every caller that was handed the promise of a flush (the flush or
\* append call that started it, the flush and append calls that joined it)
\* is waiting on it until it settles, and when the cycle has failed each of
\* them is rejected in the step that settles it.
C25_FailureRejectsEveryCaller ==
  /\ [][(nextId' # nextId /\ accepted' # accepted
         /\ Len(buffer) + 1 >= options.bufferFlushThreshold)
        => \E w \in waiters' \ waiters : w.kind = "append" /\ w.entry = nextId]_vars
  /\ [][flushCalls' # flushCalls
        => \E w \in waiters' :
             /\ w.kind = "flush"
             /\ w.acceptedBefore = Len(accepted)
             /\ w.joined = (flushPromise = "pending")]_vars
  /\ [][pc' # "idle" => waiters \subseteq waiters']_vars
  /\ [][FailedFlushSettles
        => (/\ waiters' = {}
            /\ \A w \in waiters : \E o \in settled' :
                 /\ ~o.ok
                 /\ o.kind = w.kind /\ o.entry = w.entry /\ o.joined = w.joined
                 /\ o.acceptedBefore = w.acceptedBefore /\ o.shutdown = w.shutdown
            /\ \A o \in settled' : ~o.ok)]_vars

\* a failed flush has just rejected the append call that started it and a
\* flush call that joined it
C25_Witness ==
  /\ \E o \in settled : o.kind = "append" /\ ~o.joined /\ ~o.ok
  /\ \E o \in settled : o.kind = "flush" /\ o.joined /\ ~o.ok
  /\ \A o \in settled : ~o.ok
  /\ ioFailures.total > 0

\* C26: for a writer constructed with suppressThresholdFlushErrors: true (every
\* writer of SuppressSpec), the promise append() returned for a flush it
\* started on reaching the threshold is never rejected, and when that flush is
\* about to fail before its write completed the batch is back at the front of
\* the queue.
C26_SuppressedNotPropagated ==
  /\ \A s \in settled : (s.kind = "append" /\ ~s.joined) => s.ok
  /\ (pc = "settle" /\ thrown \notin {"none", "close"}
      /\ \E w \in waiters : w.kind = "append" /\ ~w.joined)
     => IsPrefix(dataToWrite, buffer)

\* the file operations a cycle issues before its close
WorkIssued == <<calls.open, calls.stat, calls.read, calls.truncate, calls.write>>

\* C27: once a cycle has failed, the flush issues no further open, stat, read,
\* truncate or write; the callback of its promise leaves the writer idle with
\* no flush in flight; an idle writer touches the file only in a step of
\* append() or flush(); and the next such call that finds entries queued
\* starts a cycle of its own, from the open.
C27_NoAutomaticRetry ==
  /\ [][(thrown # "none" /\ pc' # "idle") => WorkIssued' = WorkIssued]_vars
  /\ [][(pc = "settle" /\ thrown # "none" /\ pc' # "settle")
        => (pc' = "idle" /\ flushPromise' = "undefined" /\ calls' = NoCalls
            /\ UNCHANGED <<buffer, file, fileExists, openHandles>>)]_vars
  /\ [][(pc = "idle" /\ nextId' = nextId /\ flushCalls' = flushCalls)
        => UNCHANGED <<pc, calls, file, fileExists, openHandles, buffer>>]_vars
  /\ [][(pc = "idle" /\ flushCalls' # flushCalls /\ buffer # <<>>)
        => (/\ pc' = "open"
            /\ calls' = [NoCalls EXCEPT !["open"] = 1]
            /\ dataToWrite' = buffer
            /\ thrown' = "none"
            /\ flushPromise' = "pending")]_vars

\* after a failed flush has been rejected, an explicit flush() has started a
\* cycle on the restored entries
C27_Witness ==
  /\ pc = "open"
  /\ ioFailures.total = 1
  /\ written = <<>>
  /\ calls = [NoCalls EXCEPT !["open"] = 1]
  /\ dataToWrite # <<>>
  /\ \E w \in waiters : w.kind = "flush" /\ ~w.joined

\* the initial array holds ASCII text only
AsciiOnly == \A i \in 1..Len(initialEntries) : initialEntries[i].shape # "str"

\* C28: for a file that JSON.stringify produced with the writer's settings (or
\* that the writer created), as long as no file operation has failed and no
\* patch is half-way between its truncate and its write, the file is, byte
\* for byte, JSON.stringify of the initial elements followed by the written
\* ones, with the writer's indent.
C28_ByteIdentical ==
  (ioFailures.total = 0 /\ pc # "write" /\ file # <<>> /\ AsciiOnly)
  => file = Utf8Bytes(Stringify(initialEntries \o written, options.indent))

\* the first byte a cycle that saw `size` bytes may read or change
WindowStart(size) == IF size < TailWindow THEN 0 ELSE size - TailWindow

\* C29: the tail a cycle reads starts min(size, 50) bytes before the end of
\* the file; the truncate offset of a patch lies between that start and the
\* end, so it is never negative; and a step that changes the file leaves
\* every byte before the truncate offset (before the end of the file, for the
\* write of a fresh array) as it was.
C29_OnlyTailTouched ==
  /\ [](pc = "read"
        => /\ statSize = Len(file)
           /\ readFileTail(file, statSize).readPosition = WindowStart(statSize))
  /\ [](pc \in {"truncate", "write"}
        => /\ truncatePosition >= 0
           /\ truncatePosition >= statSize - TailWindow
           /\ truncatePosition <= statSize)
  /\ [][file' # file
        => LET keep == IF pc \in {"truncate", "write"} THEN truncatePosition
                                                       ELSE Len(file)
           IN  /\ Len(file') >= keep
               /\ Len(file) >= keep
               /\ SubSeq(file', 1, keep) = SubSeq(file, 1, keep)]_vars

\* a patch of a file longer than the window has been written, its offset
\* past the start of the window
C29_Witness ==
  /\ pc = "close"
  /\ thrown = "none"
  /\ statSize > TailWindow
  /\ truncatePosition > statSize - TailWindow
  /\ truncatePosition < statSize
  /\ Len(file) > statSize

\* byte offset in the file of its last `]`
LastBracketOffset == LastIndexOfBracket(file)

\* C30: when a patch is about to truncate, its offset is the byte offset in
\* the file of the last `]`, less, for a pretty writer, the whitespace bytes
\* right before that bracket; and the write that follows puts the insertion
\* exactly there.
C30_TruncateAtLastBracket ==
  /\ [](pc = "truncate"
        => truncatePosition =
             LastBracketOffset
             - countNewLinesAndSpacesBeforeLastBracket(file, LastBracketOffset,
                                                       options.pretty))
  /\ [][(pc = "truncate" /\ pc' = "write")
        => file' = SubSeq(file, 1, LastBracketOffset
                                   - countNewLinesAndSpacesBeforeLastBracket(
                                       file, LastBracketOffset, options.pretty))]_vars

\* the last byte of the file before its closing bracket that is not
\* whitespace is not an opening bracket: the array holds an element
HasElement ==
  LET solid == {i \in 1..LastBracketOffset : file[i] \notin WS}
  IN  /\ solid # {}
      /\ file[CHOOSE i \in solid : \A j \in solid : j <= i] # "["

\* C31: when no file operation has failed, so that the file still ends in the
\* closing bracket of its array, the insertion of a patch starts with a comma
\* if and only if the array holds an element already.
C31_CommaIffElement ==
  (pc = "truncate" /\ ioFailures.total = 0)
  => ((insertion # <<>> /\ insertion[1] = ",") <=> HasElement)

\* a file operation rejects or the array check throws
CycleFails == thrown = "none" /\ thrown' # "none"

\* C32 as stated: when a flush of a single cycle, whose stat has answered, is
\* about to reject, the file is no longer than the cycle found it.
C32_Original ==
  (pc = "settle" /\ thrown # "none" /\ calls.open = 1 /\ calls.read = 1)
  => Len(file) <= statSize

\* C32 amended: the file changes only when a truncate completes, which leaves
\* a prefix, or when a write completes; the step in which a cycle fails does
\* not change it.  So a cycle failing at open, stat, read, the array check or
\* truncate finds and leaves the file as it was (statSize bytes once stat has
\* answered), and a cycle whose write fails after its truncate leaves the
\* strictly shorter prefix of truncatePosition bytes.
C32_FailedCycleOnlyShortens ==
  /\ [][file' # file
        => \/ pc = "truncate" /\ pc' = "write" /\ IsPrefix(file', file)
           \/ pc \in {"write", "writeArray"} /\ written' # written /\ thrown' = "none"]_vars
  /\ [][CycleFails => (file' = file /\ fileExists' = fileExists)]_vars
  /\ [](pc \in {"read", "truncate", "writeArray"} => Len(file) = statSize)
  /\ [](pc = "write" => (Len(file) = truncatePosition /\ truncatePosition < statSize))
  /\ [][(CycleFails /\ thrown' # "close")
        => Len(file') = (IF pc = "write" THEN truncatePosition
                         ELSE IF pc \in {"read", "truncate", "writeArray"} THEN statSize
                         ELSE Len(file))]_vars

\* a write has failed after its truncate: the file is cut before the bracket
C32_Witness ==
  /\ thrown = "write"
  /\ pc \in {"close", "settle"}
  /\ Len(file) = truncatePosition
  /\ truncatePosition < statSize

\* C33: a call of append() on a writer whose shutdown flag is set changes
\* neither the queue nor the flush handle nor the file, starts no cycle,
\* issues no file operation and hands back no promise that could reject,
\* whatever the length of the queue.
C33_AppendAfterShutdownNoOp ==
  [][(isShutdown /\ nextId' # nextId)
     => (/\ UNCHANGED <<buffer, flushPromise, isShutdown, pc, dataToWrite, thrown>>
         /\ UNCHANGED <<file, fileExists, openHandles, calls, cyclesInFlight>>
         /\ UNCHANGED <<accepted, waiters>>
         /\ settled' = {})]_vars

\* append() has been called on a shut-down, idle writer whose queue had
\* reached the threshold (a shutdown flush failed and put its batch back)
C33_Witness ==
  /\ isShutdown
  /\ afterShutdown # {}
  /\ afterShutdown \cap Ids(accepted) = {}
  /\ pc = "idle"
  /\ flushPromise = "undefined"
  /\ Len(buffer) >= options.bufferFlushThreshold
  /\ nextId - 1 \in afterShutdown

\* C34: a cycle is about to write a fresh array literal only when the whole
\* file is empty or holds nothing but whitespace; and the write of a fresh
\* array never lands behind a closing bracket.
C34_FreshArrayOnlyIfBlank ==
  /\ [](pc = "writeArray" => Trim(file) = <<>>)
  /\ [][(pc = "writeArray" /\ file' # file) => "]" \notin Range(file)]_vars

\* C35: when every file operation completes and every promise callback runs,
\* a flush in flight leads to an idle writer with the handle cleared and every
\* promise of that flush settled; and a write that completes with the queue
\* empty ends the drain loop: close is next.
C35_FlushSettles ==
  /\ (flushPromise = "pending")
       ~> (flushPromise = "undefined" /\ pc = "idle" /\ waiters = {})
  /\ [][(pc \in {"write", "writeArray"} /\ written' # written /\ buffer = <<>>)
        => pc' = "close"]_vars

\* a flush whose drain loop ran two cycles has resolved and the writer is idle
C35_Witness ==
  /\ pc = "idle"
  /\ flushPromise = "undefined"
  /\ buffer = <<>>
  /\ \E o \in settled : o.ok /\ o.io.open = 2 /\ o.io.close = 1

\* both jappend calls have settled
BothSettled == \A w \in JappendCalls : pc[w] = "done"

\* C36 as stated: when two jappend calls overlapped and both have settled,
\* both resolved, both entries are in the file and the file is a valid array.
C36_Original ==
  (BothSettled /\ \E o \in settled : o.concurrent)
  => /\ \A o \in settled : o.ok
     /\ \A w \in JappendCalls : InFile(w)
     /\ IsJSONArray(file)

\* C36 amended: when the second call started after the first had settled,
\* both resolved and the file parses as the initial array followed by the two
\* entries in call order.
C36_SequentialCallsAppend ==
  (BothSettled /\ \A o \in settled : ~o.concurrent)
  => /\ \A o \in settled : o.ok
     /\ written = accepted
     /\ Len(written) = 2
     /\ JSONEquals(file, initialEntries \o written)

\* two calls, one after the other, on a file holding an element
C36_Witness ==
  /\ BothSettled
  /\ \A o \in settled : ~o.concurrent /\ o.ok
  /\ Len(initialEntries) = 1
  /\ JSONEquals(file, initialEntries \o written)
  /\ Len(written) = 2

====
